---------------------------- MODULE Spec2Model ----------------------------
(***************************************************************************)
(* Model of src/src/fallbackServiceStub.ts: generateServiceStub builds,    *)
(* per RPC descriptor, an invoker that encodes the request, asks the auth  *)
(* client for headers, issues a fetch, and routes the response either into *)
(* a pipeline feeding a StreamArrayParser or through arrayBuffer() and the *)
(* response decoder, reporting to the caller's callback.                   *)
(*                                                                         *)
(* Specification Spec is the life cycle of invocations (the promise chain  *)
(* of lines 124-190, the synchronous invoker of lines 84-201 and the       *)
(* cancel closure of lines 196-199).  Specification SpecRequest is the     *)
(* construction of the outbound request (lines 117-146) over bounded       *)
(* header maps, methods and bodies.                                        *)
(***************************************************************************)
EXTENDS Naturals, Sequences, FiniteSets, TLC

(***************************************************************************)
(* Bounds of the model.                                                    *)
(***************************************************************************)
\* elements one response body stream delivers to the pipeline at most
MaxElems == 2

\* invocations of the stub that may be in flight together
Calls == {1, 2}

(***************************************************************************)
(* Values.                                                                 *)
(***************************************************************************)
\* JavaScript's undefined / "no exception thrown"
None == "none"

\* the rpcs handed to generateServiceStub: one unary, one server-streaming
RpcNames == {"GetWidget", "WatchWidgets"}

\* rpc.responseStream of a descriptor (protobuf.Method)
responseStream(rpc) == rpc = "WatchWidgets"

\* the caller's callback: it returns, it throws an Error, it throws an
\* Error named AbortError, or (streaming callers) it is not supplied at
\* all -- the code tests `if (callback)` on those paths
CallbackKinds == {"returns", "throws", "throwsAbort", "absent"}

\* what a callback of kind cb raises when it is called: nothing, an Error,
\* or an Error named AbortError
Raised(cb) ==
  CASE cb = "throws" -> "CallbackError"
    [] cb = "throwsAbort" -> "AbortError"
    [] OTHER -> None

\* elements a response body stream can carry
Elems == {"e1", "e2"}

\* objects the response decoder can return
Objs == {"o1", "o2"}

\* err.name of an error value (lines 157 and 177)
ErrName(err) == IF err = "AbortError" THEN "AbortError" ELSE "Error"

\* err instanceof Error (line 157); "rawValue" is a rejected non-Error value
IsError(err) == err # "rawValue"

\* errors a fetch() promise can reject with
FetchErrors == {"AbortError", "FetchError"}

\* errors response.arrayBuffer() can reject with
ReadErrors == {"AbortError", "ReadError"}

\* errors the pipeline can hand to its callback
PipeErrors == {"AbortError", "PipeError", "rawValue"}

(***************************************************************************)
(* State.  call[c] is the closure of invocation c: the variables the       *)
(* invoker declares (cancelRequested, the signal of cancelController, the  *)
(* streamArrayParser), the position of its promise chain, and what the     *)
(* caller has observed (callback invocations, events of the stream handle, *)
(* the handle returned).                                                   *)
(***************************************************************************)
VARIABLES call, closeHandle,
          fetchParameters, options, authHeader, headers, fetchRequest, step

vars == <<call, closeHandle,
          fetchParameters, options, authHeader, headers, fetchRequest, step>>

callVars == <<call>>

requestVars == <<fetchParameters, options, authHeader, headers, fetchRequest, step>>

\* what a step of one invocation leaves alone: the request under
\* construction in SpecRequest and the handle serviceStub.close returned
restVars == <<requestVars, closeHandle>>

\* an invocation that has not been made yet
Idle ==
  [ pc |-> "idle", rpc |-> None, cb |-> None, listener |-> FALSE,
    handle |-> None, cancelRequested |-> FALSE, aborted |-> FALSE,
    cancelAt |-> None, encoded |-> None, fetchResult |-> None,
    pipeResult |-> None, decoderArgs |-> <<>>, decoded |-> None,
    bodyError |-> None,
    arrived |-> <<>>,
    cbLog |-> <<>>, events |-> <<>>, hist |-> <<>>, uncaught |-> None,
    authResult |-> None ]


(***************************************************************************)
(* Reporting to the caller.  Each operator takes the closure r of one      *)
(* invocation and returns [r |-> the closure afterwards, threw |-> the     *)
(* exception the call raised, or None].                                    *)
(***************************************************************************)
\* callback(err, response): an absent callback is `undefined`, and calling
\* it raises a TypeError; a throwing callback is entered (the caller has
\* seen the arguments) and raises
callback(r, err, response) ==
  CASE r.cb = "absent" -> [r |-> r, threw |-> "TypeError"]
    [] Raised(r.cb) # None ->
         [r |-> [r EXCEPT !.cbLog = Append(@, <<err, response>>)],
          threw |-> Raised(r.cb)]
    [] OTHER ->
         [r |-> [r EXCEPT !.cbLog = Append(@, <<err, response>>)],
          threw |-> None]

\* streamArrayParser.emit('error', err): an EventEmitter with no 'error'
\* listener raises err itself instead of delivering the event
emitError(r, err) ==
  IF r.listener
    THEN [r |-> [r EXCEPT !.events = Append(@, <<"error", err>>)],
          threw |-> None]
    ELSE [r |-> r, threw |-> err]

(***************************************************************************)
(* The handlers of the promise chain, innermost last.                      *)
(***************************************************************************)
\* a mutant of Catch190: the suppression test of line 177 copied to line 190
Catch190Suppressing(r, err) ==
  IF ~r.cancelRequested \/ ErrName(err) # "AbortError"
    THEN LET k == callback(r, err, None)
         IN  IF k.threw = None THEN k.r ELSE [k.r EXCEPT !.uncaught = k.threw]
    ELSE r

\* .catch((err: unknown) => callback(err)) -- line 190.  An exception of the
\* callback rejects the chain's last promise, which nothing handles.
Catch190(r, err) ==
  LET k == callback(r, err, None)
  IN  IF k.threw = None THEN k.r ELSE [k.r EXCEPT !.uncaught = k.threw]

\* a mutant of Catch176: what the reporting raises is dropped instead of
\* rejecting the promise the catch of line 190 is attached to
Catch176Swallowing(r, err) ==
  IF ~r.cancelRequested \/ ErrName(err) # "AbortError"
    THEN IF responseStream(r.rpc)
           THEN LET k == IF r.cb # "absent"
                           THEN callback(r, err, None)
                           ELSE [r |-> r, threw |-> None]
                IN  IF k.threw # None THEN k.r ELSE emitError(k.r, err).r
           ELSE callback(r, err, None).r
    ELSE r

\* .catch((err: Error) => {...}) -- lines 176-187.  What it raises rejects
\* the promise returned at line 168 and so reaches the catch of line 190.
Catch176(r, err) ==
  IF ~r.cancelRequested \/ ErrName(err) # "AbortError"
    THEN IF responseStream(r.rpc)
           THEN LET k == IF r.cb # "absent"
                           THEN callback(r, err, None)
                           ELSE [r |-> r, threw |-> None]
                IN  IF k.threw # None
                      THEN Catch190(k.r, k.threw)
                      ELSE LET e == emitError(k.r, err)
                           IN  IF e.threw # None
                                 THEN Catch190(e.r, e.threw)
                                 ELSE e.r
           ELSE LET k == callback(r, err, None)
                IN  IF k.threw # None THEN Catch190(k.r, k.threw) ELSE k.r
    ELSE r

\* a mutant of Then172: the raw buffer is handed to the callback
Then172Raw(r, out) ==
  LET d == [r EXCEPT !.decoderArgs = <<r.fetchResult = "ok", "buffer">>]
  IN  IF out = "throw"
        THEN Catch176([d EXCEPT !.bodyError = "DecodeError"], "DecodeError")
        ELSE LET k == callback([d EXCEPT !.decoded = out], "null", "buffer")
             IN  IF k.threw # None THEN Catch176(k.r, k.threw) ELSE k.r

\* .then(([ok, buffer]) => {...}) -- lines 172-175.  out is what
\* responseDecoder(rpc, ok, buffer) does: it returns an object or throws.
\* decoderArgs (<<>> before the call) are the ok and buffer it is called
\* with (response.ok, kept in fetchResult, and the bytes arrayBuffer()
\* resolved with); bodyError remembers the failure of the body read or of
\* the decode.
Then172(r, out) ==
  LET d == [r EXCEPT !.decoderArgs = <<r.fetchResult = "ok", "buffer">>]
  IN  IF out = "throw"
        THEN Catch176([d EXCEPT !.bodyError = "DecodeError"], "DecodeError")
        ELSE LET k == callback([d EXCEPT !.decoded = out], "null", out)
             IN  IF k.threw # None THEN Catch176(k.r, k.threw) ELSE k.r

\* a mutant of pipelineCallback: an abort error is dropped whether or not
\* cancel was requested
pipelineCallbackAbortSilent(r, err) ==
  IF err # None /\ ErrName(err) # "AbortError"
    THEN LET k == IF r.cb # "absent"
                    THEN callback(r, err, None)
                    ELSE [r |-> r, threw |-> None]
         IN  IF k.threw # None
               THEN [k.r EXCEPT !.uncaught = k.threw]
               ELSE LET e == emitError(k.r, err)
                    IN  IF e.threw # None
                          THEN [e.r EXCEPT !.uncaught = e.threw]
                          ELSE e.r
    ELSE r

\* the callback handed to pipeline() -- lines 153-164; err = None is the
\* `undefined` of a pipeline that finished.  It runs outside the promise
\* chain: what it raises is an uncaught exception.
pipelineCallback(r, err) ==
  IF err # None
     /\ (~r.cancelRequested \/ (IsError(err) /\ ErrName(err) # "AbortError"))
    THEN LET k == IF r.cb # "absent"
                    THEN callback(r, err, None)
                    ELSE [r |-> r, threw |-> None]
         IN  IF k.threw # None
               THEN [k.r EXCEPT !.uncaught = k.threw]
               ELSE LET e == emitError(k.r, err)
                    IN  IF e.threw # None
                          THEN [e.r EXCEPT !.uncaught = e.threw]
                          ELSE e.r
    ELSE r

\* the StreamArrayParser has decoded one element e that the pipeline fed it:
\* it emits one 'data' event
parserData(r, e) ==
  [r EXCEPT !.arrived = Append(@, e), !.events = Append(@, <<"data", e>>)]

\* the pipeline has ended the StreamArrayParser: it signals end-of-stream
parserEnd(r) == [r EXCEPT !.events = Append(@, <<"end">>)]

\* a mutant of PipesBody: the stream flag of the descriptor is not tested
PipesBodyWhenOk(ok, rpc) == ok

\* a mutant of PipesBody: every response takes the buffered path
PipesBodyNever(ok, rpc) == FALSE

\* if (response.ok && rpc.responseStream) -- line 149
PipesBody(ok, rpc) == ok /\ responseStream(rpc)

(***************************************************************************)
(* The invoker serviceStub[rpcName] -- lines 84-201.  It runs to its       *)
(* return without interruption: the handlers of the chain it builds run in *)
(* later turns of the event loop.                                          *)
(***************************************************************************)
\* a mutant of EncodeFailed: the failed branch falls through to line 192
EncodeFailedFallsThrough(r) ==
  LET k == callback(r, "EncodeError", None)
  IN  IF k.threw # None
        THEN [k.r EXCEPT !.pc = "done", !.uncaught = k.threw]
        ELSE [k.r EXCEPT !.pc = "done",
                         !.handle = IF responseStream(r.rpc) THEN "stream"
                                                             ELSE "cancel",
                         !.hist = Append(@, "handleReturned")]

\* catch (err) { callback(err); return {cancel() {}}; } -- lines 103-110.
\* An exception of the callback leaves the invoker: no handle is returned.
EncodeFailed(r) ==
  LET k == callback(r, "EncodeError", None)
  IN  IF k.threw # None
        THEN [k.r EXCEPT !.pc = "done", !.uncaught = k.threw]
        ELSE [k.r EXCEPT !.pc = "done", !.handle = "noop",
                         !.hist = Append(@, "handleReturned")]

\* lines 112-125: the cancellation state and the parser are created and
\* authClient.getRequestHeaders() is called; its promise is pending
StartChain(r) ==
  [r EXCEPT !.cancelRequested = FALSE, !.aborted = FALSE,
            !.hist = Append(@, "authRequest"), !.pc = "auth"]

\* a mutant of ReturnHandle: the cancel closure is returned for every rpc
ReturnHandleCancelOnly(r) ==
  [r EXCEPT !.handle = "cancel", !.hist = Append(@, "handleReturned")]

\* lines 192-200: the stream handle for a streaming rpc, else the closure
\* that sets cancelRequested and aborts the controller
ReturnHandle(r) ==
  [r EXCEPT !.handle = IF responseStream(r.rpc) THEN "stream" ELSE "cancel",
            !.hist = Append(@, "handleReturned")]

\* .then(authHeader => {...; return fetch(url, fetchRequest)}) -- lines
\* 126-147: the transport call is issued and its promise is pending
Then126(r) ==
  [r EXCEPT !.hist = Append(@, "fetchIssued"), !.pc = "fetch"]

\* a mutant of invoker: the chain is awaited before the handle is returned
invokerAwaiting(r) ==
  IF r.encoded = "threw" THEN EncodeFailed(r) ELSE ReturnHandle(Then126(StartChain(r)))

\* the invoker's body, lines 93-200, on the closure r that holds its
\* arguments (the rpc, the callback, whether the encoder throws)
invoker(r) ==
  IF r.encoded = "threw" THEN EncodeFailed(r) ELSE ReturnHandle(StartChain(r))

\* .then((response) => {...}) -- lines 148-171: the response is routed to
\* the pipeline or to arrayBuffer(), both pending afterwards
Then148(r, ok) ==
  [r EXCEPT !.fetchResult = IF ok THEN "ok" ELSE "notok",
            !.pc = IF PipesBody(ok, r.rpc) THEN "pipe" ELSE "body"]

\* a mutant of cancel: the flag is flipped instead of set
cancelToggles(r) ==
  [r EXCEPT !.cancelRequested = ~@, !.aborted = TRUE,
            !.cancelAt = IF @ = None THEN r.pc ELSE @]

\* a mutant of cancel: the flag is left alone, only the signal is aborted
cancelSignalOnly(r) ==
  [r EXCEPT !.aborted = TRUE,
            !.cancelAt = IF @ = None THEN r.pc ELSE @]

\* cancel: () => {cancelRequested = true; cancelController.abort()} --
\* lines 196-199; cancelAt remembers where the chain stood at the first call
cancel(r) ==
  [r EXCEPT !.cancelRequested = TRUE, !.aborted = TRUE,
            !.cancelAt = IF @ = None THEN r.pc ELSE @]

(***************************************************************************)
(* Actions of Spec: one per call of the stub and per settlement of a       *)
(* pending promise or pipeline.                                            *)
(***************************************************************************)
\* the caller invokes serviceStub[rpc](request, options, metadata, callback)
Invoke(c) ==
  /\ call[c].pc = "idle"
  /\ \A d \in Calls : d < c => call[d].pc # "idle"
  /\ \E rpc \in RpcNames, enc \in {"ok", "threw"}, cb \in CallbackKinds, lis \in BOOLEAN :
       /\ cb = "absent" => responseStream(rpc)
       /\ lis => (responseStream(rpc) /\ enc = "ok")
       /\ call' = [call EXCEPT ![c] =
                     invoker([@ EXCEPT !.rpc = rpc, !.cb = cb,
                                       !.listener = lis, !.encoded = enc])]
  /\ UNCHANGED restVars

\* authClient.getRequestHeaders() resolves
AuthResolve(c) ==
  /\ call[c].pc = "auth"
  /\ call' = [call EXCEPT ![c] = Then126([@ EXCEPT !.authResult = "ok"])]
  /\ UNCHANGED restVars

\* a mutant of AuthReject: the rejection is swallowed and the transport
\* call is issued without auth headers
AuthRejectFetches(c) ==
  /\ call[c].pc = "auth"
  /\ call' = [call EXCEPT ![c] = Then126([@ EXCEPT !.authResult = "AuthError"])]
  /\ UNCHANGED restVars

\* authClient.getRequestHeaders() rejects: the handlers of lines 126-189
\* are skipped and the catch of line 190 runs
AuthReject(c) ==
  /\ call[c].pc = "auth"
  /\ call' = [call EXCEPT ![c] =
                Catch190([@ EXCEPT !.pc = "done", !.authResult = "AuthError"],
                         "AuthError")]
  /\ UNCHANGED restVars

\* fetch() resolves with a response, ok or not
FetchResolve(c) ==
  /\ call[c].pc = "fetch"
  /\ \E ok \in BOOLEAN : call' = [call EXCEPT ![c] = Then148(@, ok)]
  /\ UNCHANGED restVars

\* fetch() rejects
FetchReject(c) ==
  /\ call[c].pc = "fetch"
  /\ \E err \in FetchErrors :
       call' = [call EXCEPT ![c] =
                  Catch190([@ EXCEPT !.pc = "done", !.fetchResult = err], err)]
  /\ UNCHANGED restVars

\* response.arrayBuffer() resolves and the decoder runs
BodyRead(c) ==
  /\ call[c].pc = "body"
  /\ \E out \in Objs \cup {"throw"} :
       call' = [call EXCEPT ![c] = Then172([@ EXCEPT !.pc = "done"], out)]
  /\ UNCHANGED restVars

\* response.arrayBuffer() rejects
BodyFail(c) ==
  /\ call[c].pc = "body"
  /\ \E err \in ReadErrors :
       call' = [call EXCEPT ![c] =
                  Catch176([@ EXCEPT !.pc = "done", !.bodyError = err], err)]
  /\ UNCHANGED restVars

\* the pipeline moves one element of response.body through the parser,
\* which emits it as a 'data' event
PipeData(c) ==
  /\ call[c].pc = "pipe"
  /\ Len(call[c].arrived) < MaxElems
  /\ \E e \in Elems : call' = [call EXCEPT ![c] = parserData(@, e)]
  /\ UNCHANGED restVars

\* response.body ends: the parser emits 'end' and the pipeline calls back
\* with no error
PipeEnd(c) ==
  /\ call[c].pc = "pipe"
  /\ call' = [call EXCEPT ![c] =
                pipelineCallback(
                  parserEnd([@ EXCEPT !.pc = "done", !.pipeResult = "end"]),
                  None)]
  /\ UNCHANGED restVars

\* the pipeline fails and calls back with the error
PipeFail(c) ==
  /\ call[c].pc = "pipe"
  /\ \E err \in PipeErrors :
       call' = [call EXCEPT ![c] =
                  pipelineCallback([@ EXCEPT !.pc = "done", !.pipeResult = err],
                                   err)]
  /\ UNCHANGED restVars

\* a mutant of cancelOf: cancelRequested and cancelController are declared
\* once in generateServiceStub and so shared by all invocations
cancelShared(cs, c) ==
  [d \in DOMAIN cs |-> IF cs[d].pc # "idle" THEN cancel(cs[d]) ELSE cs[d]]

\* the cancel closure of invocation c among the closures cs of all
\* invocations: cancelRequested and cancelController are locals of the
\* invoker (lines 112-116), so it reaches those of c alone
cancelOf(cs, c) == [cs EXCEPT ![c] = cancel(@)]

\* the caller calls cancel() on the handle of lines 195-200
Cancel(c) ==
  /\ call[c].handle = "cancel"
  /\ call' = cancelOf(call, c)
  /\ UNCHANGED restVars

\* the caller calls cancel() on the handle of lines 107-109
CancelNoop(c) ==
  /\ call[c].handle = "noop"
  /\ UNCHANGED vars

\* a mutant of close: every live cancel controller is aborted, as the
\* comment of line 78 proposes for a later version
closeAbortsAll(cs) ==
  [c \in DOMAIN cs |->
     IF cs[c].pc \notin {"idle", "done"} THEN [cs[c] EXCEPT !.aborted = TRUE]
                                         ELSE cs[c]]

\* close: () => {return {cancel: () => {}}} -- lines 79-81, as a function
\* of the closures cs of all invocations: it reads and writes none of them
close(cs) == cs

\* the caller calls serviceStub.close() and gets its handle
Close ==
  /\ call' = close(call)
  /\ closeHandle' = "noop"
  /\ UNCHANGED requestVars

\* the caller calls cancel() on the handle close returned -- line 80
CloseCancel ==
  /\ closeHandle = "noop"
  /\ UNCHANGED vars

Init ==
  /\ call = [c \in Calls |-> Idle]
  /\ closeHandle = None
  /\ fetchParameters = None
  /\ options = None
  /\ authHeader = None
  /\ headers = None
  /\ fetchRequest = None
  /\ step = "lifecycle"

Next ==
  \/ Close
  \/ CloseCancel
  \/ \E c \in Calls :
    \/ Invoke(c)
    \/ AuthResolve(c)
    \/ AuthReject(c)
    \/ FetchResolve(c)
    \/ FetchReject(c)
    \/ BodyRead(c)
    \/ BodyFail(c)
    \/ PipeData(c)
    \/ PipeEnd(c)
    \/ PipeFail(c)
    \/ Cancel(c)
    \/ CancelNoop(c)

Spec == Init /\ [][Next]_vars

(***************************************************************************)
(* SpecRequest: the outbound request of one invocation, lines 117-146.     *)
(* A header object is a function from the keys it holds to their values.   *)
(***************************************************************************)
\* header names
Keys == {"A", "B", "C"}

\* FetchParametersMethod -- line 43
Methods == {"GET", "POST", "PUT", "PATCH", "DELETE"}

\* the header objects over keys K with values in V
HeaderMaps(K, V) == UNION {[D -> V] : D \in SUBSET K}

\* header values the request encoder produces
EncoderValues == {"1"}

\* values of a call option: a sequence, of which the code reads element 0
OptionValues == {<<"2">>, <<"3">>, <<"3", "2">>}

\* header values the auth client produces
AuthValues == {"0", "4"}

\* bodies the request encoder attaches
Bodies == {"", "payload"}

\* {...a, ...b}: the keys of both, b's value where both hold a key
Spread(a, b) ==
  [k \in DOMAIN a \cup DOMAIN b |-> IF k \in DOMAIN b THEN b[k] ELSE a[k]]

\* for (const key of Object.keys(options)) headers[key] = options[key][0]
\* -- lines 118-121, on the encoder's own header object
mergeOptions(h, opts) ==
  [k \in DOMAIN h \cup DOMAIN opts |->
     IF k \in DOMAIN opts THEN opts[k][1] ELSE h[k]]

\* a mutant of requestHeaders: the auth headers are spread last
requestHeadersAuthLast(auth, h) == Spread(h, auth)

\* headers: {...authHeader, ...headers} -- lines 128-131
requestHeaders(auth, h) == Spread(auth, h)

\* a mutant of requestBody: the body is kept for every method
requestBodyKept(method, body) == body

\* body: fetchParameters.body, deleted for GET and DELETE -- lines 132-145;
\* None is a request that has no body property
requestBody(method, body) ==
  IF method = "GET" \/ method = "DELETE" THEN None ELSE body

\* the option overrides are written into `headers` -- lines 117-121.  The
\* object is the encoder's own; fetchParameters keeps what the encoder
\* returned, and nothing reads fetchParameters.headers afterwards.
MergeOptions ==
  /\ step = "encoded"
  /\ headers' = mergeOptions(fetchParameters.headers, options)
  /\ step' = "merged"
  /\ UNCHANGED <<call, closeHandle, fetchParameters, options, authHeader,
                 fetchRequest>>

\* the auth headers have arrived: fetchRequest is built -- lines 127-145
BuildFetchRequest ==
  /\ step = "merged"
  /\ fetchRequest' =
       [headers |-> requestHeaders(authHeader, headers),
        body    |-> requestBody(fetchParameters.method, fetchParameters.body),
        method  |-> fetchParameters.method]
  /\ step' = "built"
  /\ UNCHANGED <<call, closeHandle, fetchParameters, options, authHeader,
                 headers>>

\* the encoder's FetchParameters, the caller's options and the auth
\* client's headers of one invocation
InitRequest ==
  /\ call = [c \in Calls |-> Idle]
  /\ closeHandle = None
  /\ fetchParameters \in [headers : HeaderMaps(Keys, EncoderValues),
                          body : Bodies, method : Methods]
  /\ options \in HeaderMaps(Keys, OptionValues)
  /\ authHeader \in HeaderMaps(Keys, AuthValues)
  /\ headers = fetchParameters.headers
  /\ fetchRequest = None
  /\ step = "encoded"

NextRequest == MergeOptions \/ BuildFetchRequest

SpecRequest == InitRequest /\ [][NextRequest]_vars

(***************************************************************************)
(* What the caller has observed of invocation c.                           *)
(***************************************************************************)
\* the positions of the terminating events (end or error) of the stream
Terminating(c) ==
  {i \in DOMAIN call[c].events : call[c].events[i][1] \in {"end", "error"}}

\* the elements of the 'data' events, in the order they were emitted
DataOf(events) ==
  LET data == SelectSeq(events, LAMBDA ev : ev[1] = "data")
  IN  [i \in DOMAIN data |-> data[i][2]]

\* the callback invocations that report success / an error
Successes(c) == {i \in DOMAIN call[c].cbLog : call[c].cbLog[i][1] = "null"}

Failures(c) == {i \in DOMAIN call[c].cbLog : call[c].cbLog[i][1] # "null"}

\* the failure met before any response: the rejection of fetch(), or of
\* getRequestHeaders() (the chain is over and no fetch was issued)
PreResponseError(c) ==
  CASE call[c].fetchResult \in FetchErrors -> call[c].fetchResult
    [] /\ call[c].encoded = "ok"
       /\ call[c].pc = "done"
       /\ \A i \in DOMAIN call[c].hist : call[c].hist[i] # "fetchIssued"
         -> "AuthError"
    [] OTHER -> None

(***************************************************************************)
(* Claims.                                                                 *)
(***************************************************************************)
\* C1: the caller never receives a terminal outcome twice and never both a
\* success and an error: per invocation the callback is invoked at most
\* once and the stream handle receives at most one of end and error.
C1_AtMostOneOutcome ==
  \A c \in Calls :
    /\ Len(call[c].cbLog) <= 1
    /\ Cardinality(Terminating(c)) <= 1
    /\ ~(Successes(c) # {} /\ Failures(c) # {})

\* C2: once every step an invocation waits on has settled, a unary call
\* has had its one callback invocation and a streaming call has had a
\* terminating event (end or error) on its stream handle.  Stated for the
\* invocations that got a handle from a successful encoding, whose callback
\* returns and whose stream handle has an 'error' listener.
C2_OutcomeWhenSettled ==
  \A c \in Calls :
    (/\ call[c].pc = "done"
     /\ call[c].encoded = "ok"
     /\ call[c].cb = "returns"
     /\ responseStream(call[c].rpc) => call[c].listener)
    => IF responseStream(call[c].rpc)
         THEN Terminating(c) # {}
         ELSE Len(call[c].cbLog) = 1

\* C3: when cancel was requested before the transport call settled and the
\* transport call then failed with an abort error, the callback is never
\* invoked with that error and no 'error' event is emitted.
C3_AbortAfterCancelSuppressed ==
  \A c \in Calls :
    (call[c].cancelAt \in {"auth", "fetch"} /\ call[c].fetchResult = "AbortError")
    => /\ \A i \in DOMAIN call[c].cbLog : call[c].cbLog[i][1] # "AbortError"
       /\ \A i \in DOMAIN call[c].events : call[c].events[i][1] # "error"

\* C4: a failure before any response (getRequestHeaders() or fetch()
\* rejecting) is handed to the callback, whatever cancelRequested is and
\* whatever the error is: the callback's invocations are that one.
C4_PreResponseFailureReported ==
  \A c \in Calls :
    (PreResponseError(c) # None /\ call[c].cb # "absent")
    => call[c].cbLog = << <<PreResponseError(c), None>> >>

\* C4's case: cancel was requested, fetch() rejected with an abort error,
\* and the callback received it
C4_Witness ==
  \E c \in Calls :
    /\ call[c].cancelRequested
    /\ call[c].cancelAt \in {"auth", "fetch"}
    /\ call[c].fetchResult = "AbortError"
    /\ call[c].cbLog = << <<"AbortError", None>> >>

\* C5: when the request encoder throws, the callback is invoked exactly
\* once, with the thrown error; no auth-header request and no transport
\* call is ever issued; the handle returned is the cancel handle whose
\* cancel changes nothing, never a stream handle, also for a streaming
\* descriptor; the cancellation state of the invocation never changes.
C5_EncoderThrows ==
  \A c \in Calls :
    call[c].encoded = "threw"
    => /\ call[c].cb # "absent" => call[c].cbLog = << <<"EncodeError", None>> >>
       /\ call[c].cb = "absent" => call[c].cbLog = <<>>
       /\ \A i \in DOMAIN call[c].hist :
            call[c].hist[i] \notin {"authRequest", "fetchIssued"}
       /\ call[c].handle \in {"noop", None}
       /\ call[c].cb = "returns" => call[c].handle = "noop"
       /\ ~call[c].cancelRequested /\ ~call[c].aborted
       /\ call[c].pc = "done" /\ call[c].events = <<>>

\* C5's case: the encoder threw for a streaming descriptor, the callback
\* got the error and the no-op cancel handle was returned
C5_Witness ==
  \E c \in Calls :
    /\ call[c].encoded = "threw"
    /\ responseStream(call[c].rpc)
    /\ call[c].handle = "noop"
    /\ call[c].cbLog = << <<"EncodeError", None>> >>

\* C6: for a unary descriptor, when encoding, auth-header retrieval, the
\* transport call, the body read and the decode all succeed and cancel is
\* not called, the callback is invoked exactly once, with a null error and
\* the object the response decoder returned.
C6_UnarySuccess ==
  \A c \in Calls :
    (/\ ~responseStream(call[c].rpc)
     /\ call[c].fetchResult = "ok"
     /\ call[c].decoded # None
     /\ call[c].cancelAt = None)
    => call[c].cbLog = << <<"null", call[c].decoded>> >>

\* C7 as stated: for a streaming descriptor whose transport call returned a
\* successful response, the callback is never invoked, the 'data' events
\* are the arrived elements in order and, once the body is through, they
\* are followed by the end-of-stream signal.
C7_Original ==
  \A c \in Calls :
    (responseStream(call[c].rpc) /\ call[c].fetchResult = "ok")
    => /\ call[c].cbLog = <<>>
       /\ DataOf(call[c].events) = call[c].arrived
       /\ call[c].pc = "done"
            => call[c].events =
                 [i \in DOMAIN call[c].arrived |-> <<"data", call[c].arrived[i]>>]
                 \o << <<"end">> >>

\* C7: for a streaming descriptor whose transport call returned a
\* successful response, as long as the pipe has not failed the callback is
\* not invoked and the 'data' events are the arrived elements in order;
\* when the pipe completes without error the events are those 'data'
\* events followed by the end-of-stream signal, and nothing else.
C7_StreamSuccess ==
  \A c \in Calls :
    (/\ responseStream(call[c].rpc)
     /\ call[c].fetchResult = "ok"
     /\ call[c].pipeResult \in {None, "end"})
    => /\ call[c].cbLog = <<>>
       /\ call[c].pc = "pipe" \/ call[c].pipeResult = "end"
       /\ DataOf(call[c].events) = call[c].arrived
       /\ call[c].pipeResult = None => call[c].events =
            [i \in DOMAIN call[c].arrived |-> <<"data", call[c].arrived[i]>>]
       /\ call[c].pipeResult = "end" => call[c].events =
            [i \in DOMAIN call[c].arrived |-> <<"data", call[c].arrived[i]>>]
            \o << <<"end">> >>

\* C7's case: two elements arrived, e2 before e1, the pipe completed
C7_Witness ==
  \E c \in Calls :
    /\ responseStream(call[c].rpc)
    /\ call[c].pipeResult = "end"
    /\ call[c].arrived = <<"e2", "e1">>
    /\ call[c].events = << <<"data", "e2">>, <<"data", "e1">>, <<"end">> >>
    /\ call[c].cbLog = <<>>

\* C8: the handle is returned before the transport call is issued, and it
\* is already returned whenever the auth-header request or the transport
\* call is pending; the cancel handle of a unary call is live then.
C8_HandleBeforeTransport ==
  \A c \in Calls :
    /\ \A i \in DOMAIN call[c].hist :
         call[c].hist[i] = "fetchIssued"
         => \E j \in 1..(i - 1) : call[c].hist[j] = "handleReturned"
    /\ call[c].pc \in {"auth", "fetch"}
         => call[c].handle = IF responseStream(call[c].rpc) THEN "stream"
                                                            ELSE "cancel"

\* C8's case: a call whose transport call has been issued
C8_Witness ==
  \E c \in Calls :
    /\ call[c].pc = "fetch"
    /\ call[c].hist = <<"authRequest", "handleReturned", "fetchIssued">>

\* C9 as stated: whatever handle is returned, it is the stream handle
\* exactly when the descriptor has the stream flag set.
C9_Original ==
  \A c \in Calls :
    call[c].handle # None
    => (call[c].handle = "stream" <=> responseStream(call[c].rpc))

\* C9: when encoding succeeds a handle is returned and it is the stream
\* handle for a descriptor with the stream flag set and the live cancel
\* handle for one with the flag unset, whatever auth retrieval and the
\* transport do; when the encoder throws, the handle returned is the no-op
\* cancel handle whatever the flag.
C9_HandleKind ==
  \A c \in Calls :
    /\ call[c].encoded = "ok"
         => call[c].handle = IF responseStream(call[c].rpc) THEN "stream"
                                                            ELSE "cancel"
    /\ call[c].encoded = "threw" => call[c].handle \in {"noop", None}

\* C9's case: a streaming call whose transport call failed holds a stream
\* handle, and one whose encoder threw a no-op cancel handle
C9_Witness ==
  \E c, d \in Calls :
    /\ responseStream(call[c].rpc)
    /\ call[c].fetchResult = "FetchError"
    /\ call[c].handle = "stream"
    /\ responseStream(call[d].rpc)
    /\ call[d].encoded = "threw"
    /\ call[d].handle = "noop"

\* C10: the outbound headers hold, for every key of the three layers, the
\* call option's first value if the options hold the key, else the
\* encoder's value if the encoder's headers hold it, else the auth
\* header's value; encoder {A:1}, options {A:2, B:3}, auth {A:0, C:4}
\* give {A:2, B:3, C:4}.
C10_HeaderPrecedence ==
  step = "built"
  => /\ DOMAIN fetchRequest.headers =
          DOMAIN authHeader \cup DOMAIN fetchParameters.headers \cup DOMAIN options
     /\ \A k \in DOMAIN fetchRequest.headers :
          fetchRequest.headers[k] =
            IF k \in DOMAIN options THEN Head(options[k])
            ELSE IF k \in DOMAIN fetchParameters.headers
                   THEN fetchParameters.headers[k]
                   ELSE authHeader[k]
     /\ (/\ fetchParameters.headers = [k \in {"A"} |-> "1"]
         /\ options = [k \in {"A", "B"} |-> IF k = "A" THEN <<"2">> ELSE <<"3">>]
         /\ authHeader = [k \in {"A", "C"} |-> IF k = "A" THEN "0" ELSE "4"])
        => fetchRequest.headers =
             [k \in {"A", "B", "C"} |->
                IF k = "A" THEN "2" ELSE IF k = "B" THEN "3" ELSE "4"]

\* C10's case: the request built from encoder {A:1}, options {A:2, B:3}
\* and auth {A:0, C:4}
C10_Witness ==
  /\ step = "built"
  /\ fetchParameters.headers = [k \in {"A"} |-> "1"]
  /\ options = [k \in {"A", "B"} |-> IF k = "A" THEN <<"2">> ELSE <<"3">>]
  /\ authHeader = [k \in {"A", "C"} |-> IF k = "A" THEN "0" ELSE "4"]
  /\ fetchRequest.headers =
       [k \in {"A", "B", "C"} |->
          IF k = "A" THEN "2" ELSE IF k = "B" THEN "3" ELSE "4"]

\* C11: a request built for GET or DELETE has no body, whatever body the
\* encoder attached; for POST, PUT and PATCH the body of the request is the
\* encoder's body, unchanged; the method is the encoder's.
C11_BodyByMethod ==
  step = "built"
  => /\ fetchRequest.method = fetchParameters.method
     /\ fetchRequest.method \in {"GET", "DELETE"} => fetchRequest.body = None
     /\ fetchRequest.method \in {"POST", "PUT", "PATCH"}
          => fetchRequest.body = fetchParameters.body

\* C11's case: the encoder attached a body to a DELETE and the request
\* built from it has none
C11_Witness ==
  /\ step = "built"
  /\ fetchParameters.method = "DELETE"
  /\ fetchParameters.body = "payload"
  /\ fetchRequest.method = "DELETE"
  /\ fetchRequest.body = None

\* what the caller can observe of an invocation, and where its chain stands
Observed(r) == <<r.pc, r.cbLog, r.events, r.uncaught, r.hist, r.handle,
                 r.fetchResult, r.pipeResult, r.decoderArgs, r.decoded,
                 r.bodyError,
                 r.arrived>>

\* C12: cancelRequested is false before and right after the invocation is
\* made, changes only in a step of that invocation's cancel, and once true
\* stays true; a cancel called when the flag is already set changes
\* nothing at all, and a cancel called after the chain has ended invokes no
\* callback, emits no event and changes nothing but the flag and the signal.
C12_CancelFlag ==
  [][\A c \in Calls :
       /\ call[c].pc = "idle" => ~call[c].cancelRequested /\ ~call'[c].cancelRequested
       /\ call[c].cancelRequested => call'[c].cancelRequested
       /\ call'[c].cancelRequested # call[c].cancelRequested => Cancel(c)
       /\ (Cancel(c) /\ call[c].cancelRequested) => call'[c] = call[c]
       /\ (Cancel(c) /\ call[c].pc = "done")
            => Observed(call'[c]) = Observed(call[c])]_vars

\* C12's case: cancel was first called after the callback had been invoked
\* and the chain had ended; the callback's one invocation is all there is
C12_Witness ==
  \E c \in Calls :
    /\ call[c].cancelRequested
    /\ call[c].cancelAt = "done"
    /\ call[c].cbLog = << <<"null", call[c].decoded>> >>

\* C13: a call of close changes no invocation: no auth request and no
\* transport call is issued, no cancelRequested flag is set and no signal is
\* aborted, so every step an invocation could take before it can take
\* after; and a cancel on the handle close returned changes nothing.
C13_CloseInert ==
  [][/\ Close => /\ call' = call
                 /\ \A c \in Calls :
                      /\ call'[c].hist = call[c].hist
                      /\ call'[c].cancelRequested = call[c].cancelRequested
                      /\ call'[c].aborted = call[c].aborted
     /\ CloseCancel => UNCHANGED vars]_vars

\* C13's case: close has been called while an invocation waits for its
\* transport call, whose signal is not aborted
C13_Witness ==
  /\ closeHandle = "noop"
  /\ \E c \in Calls :
       /\ call[c].pc = "fetch"
       /\ ~call[c].aborted
       /\ ~call[c].cancelRequested

\* the callback was invoked with (err) / the stream handle got 'error' err
ReportedToCallback(c, err) ==
  \E i \in DOMAIN call[c].cbLog : call[c].cbLog[i] = <<err, None>>

ReportedToStream(c, err) ==
  \E i \in DOMAIN call[c].events : call[c].events[i] = <<"error", err>>

\* cancel was requested on c while its chain was still running
CancelledInFlight(c) == call[c].cancelAt \notin {None, "done"}

\* C14: when the body read or the decode fails, the error is suppressed
\* (no callback invocation, no event) if and only if cancel was requested
\* and the error is an abort error; otherwise a unary call reports it to the
\* callback only, and a streaming call to the callback (when present) and
\* as an 'error' event on the stream handle (when it has a listener).
C14_BufferedFailure ==
  \A c \in Calls :
    call[c].bodyError # None
    => IF CancelledInFlight(c) /\ call[c].bodyError = "AbortError"
         THEN call[c].cbLog = <<>> /\ call[c].events = <<>>
         ELSE /\ call[c].cb # "absent" => ReportedToCallback(c, call[c].bodyError)
              /\ (responseStream(call[c].rpc) /\ call[c].listener)
                   => ReportedToStream(c, call[c].bodyError)
              /\ ~responseStream(call[c].rpc) => call[c].events = <<>>

\* C15: when the pipe of a successful streamed response fails, the error is
\* reported -- to the callback (when present) and as an 'error' event on
\* the stream handle (when it has a listener) -- unless cancel was
\* requested and the error is an abort error, and only then is it
\* suppressed.
C15_PipeFailure ==
  \A c \in Calls :
    call[c].pipeResult \in PipeErrors
    => IF CancelledInFlight(c) /\ call[c].pipeResult = "AbortError"
         THEN TRUE
         ELSE /\ call[c].cb # "absent" => ReportedToCallback(c, call[c].pipeResult)
              /\ call[c].listener => ReportedToStream(c, call[c].pipeResult)

\* the response of c was piped into the parser / read through arrayBuffer()
Piped(c) == call[c].pc = "pipe" \/ call[c].pipeResult # None

Buffered(c) ==
  \/ call[c].pc = "body"
  \/ call[c].decoderArgs # <<>>
  \/ call[c].bodyError # None

C17_CancelPerInvocation ==
  [][\A c \in Calls :
       /\ Cancel(c) =>
            /\ call'[c].cancelRequested /\ call'[c].aborted
            /\ Observed(call'[c]) = Observed(call[c])
            /\ \A d \in Calls \ {c} : call'[d] = call[d]
       /\ call'[c] # call[c] => \A d \in Calls \ {c} : call'[d] = call[d]]_vars

\* C17's case: two unary invocations were in flight together; one was
\* cancelled while its transport call was pending and got the abort error,
\* the other was never cancelled and got its response
C17_Witness ==
  \E c, d \in Calls :
    /\ c # d
    /\ call[c].handle = "cancel" /\ call[d].handle = "cancel"
    /\ call[c].cancelAt = "fetch"
    /\ call[c].fetchResult = "AbortError"
    /\ ~call[d].cancelRequested /\ ~call[d].aborted
    /\ call[d].fetchResult = "ok"
    /\ call[d].cbLog = << <<"null", call[d].decoded>> >>

\* the number of entries of the history h that equal e
Count(h, e) == Cardinality({i \in DOMAIN h : h[i] = e})

\* C18: per invocation the auth headers are requested at most once and the
\* transport call is issued at most once, whatever failed; a transport call
\* was issued only if the encoder returned and the auth request, made
\* earlier, resolved; after a rejected auth request none is ever issued.
C18_OneAuthOneFetch ==
  \A c \in Calls :
    /\ Count(call[c].hist, "authRequest") <= 1
    /\ Count(call[c].hist, "fetchIssued") <= 1
    /\ \A i \in DOMAIN call[c].hist :
         call[c].hist[i] = "fetchIssued"
         => /\ call[c].encoded = "ok"
            /\ call[c].authResult = "ok"
            /\ \E j \in 1..(i - 1) : call[c].hist[j] = "authRequest"
    /\ call[c].authResult = "AuthError"
         => Count(call[c].hist, "fetchIssued") = 0
    /\ call[c].encoded = "threw" /\ call[c].pc # "idle"
         => /\ Count(call[c].hist, "authRequest") = 0
            /\ Count(call[c].hist, "fetchIssued") = 0

\* C18's case: one invocation ended on a rejected auth request without a
\* transport call, another ended on a failed transport call issued once
C18_Witness ==
  \E c, d \in Calls :
    /\ call[c].pc = "done" /\ call[c].authResult = "AuthError"
    /\ call[c].hist = <<"authRequest", "handleReturned">>
    /\ call[d].pc = "done" /\ call[d].fetchResult \in FetchErrors
    /\ Count(call[d].hist, "fetchIssued") = 1

\* the handler that met the failure err of c entered its reporting branch:
\* the callback was entered with err, or 'error' was emitted with err, or
\* the attempt to do either raised
NotSuppressed(c, err) ==
  \/ ReportedToCallback(c, err)
  \/ ReportedToStream(c, err)
  \/ call[c].uncaught # None

\* C19: an invocation of a streaming rpc whose encoder returned holds the
\* stream handle, never the cancel closure, so its cancelRequested is false
\* and its signal is not aborted in every state, and no failure of its pipe,
\* body read or decode is suppressed, an abort error included.
C19_StreamNeverCancelled ==
  \A c \in Calls :
    (call[c].pc # "idle" /\ responseStream(call[c].rpc) /\ call[c].encoded = "ok")
    => /\ call[c].handle = "stream"
       /\ ~call[c].cancelRequested
       /\ ~call[c].aborted
       /\ call[c].cancelAt = None
       /\ call[c].pipeResult \in PipeErrors
            => NotSuppressed(c, call[c].pipeResult)
       /\ call[c].bodyError # None
            => NotSuppressed(c, call[c].bodyError)

\* C19's case: the pipe of one streaming invocation and the body read of
\* another failed with an abort error, and both were reported to the
\* callback and as an 'error' event
C19_Witness ==
  \E c, d \in Calls :
    /\ responseStream(call[c].rpc) /\ responseStream(call[d].rpc)
    /\ call[c].pipeResult = "AbortError"
    /\ ReportedToCallback(c, "AbortError") /\ ReportedToStream(c, "AbortError")
    /\ call[d].bodyError = "AbortError"
    /\ ReportedToCallback(d, "AbortError") /\ ReportedToStream(d, "AbortError")

\* C20: on the buffered path of an invocation that has a callback, a
\* callback that raises on (null, decoded object) is invoked a second time
\* with the error it raised (and, raising again, a third time by the catch
\* of line 190), unless cancel was requested and the error is an abort
\* error, when it is not invoked again; and when the report of a body-read
\* or decode error raises -- in the callback, or in the emit of 'error' on a
\* stream handle without a listener -- the callback is invoked once more
\* with the error raised, an abort error after a cancel included.
C20_ReportingRaises ==
  \A c \in Calls :
    (call[c].pc = "done" /\ Buffered(c) /\ call[c].cb # "absent")
    => /\ (call[c].decoded # None /\ Raised(call[c].cb) # None)
            => IF CancelledInFlight(c) /\ Raised(call[c].cb) = "AbortError"
                 THEN /\ call[c].cbLog = << <<"null", call[c].decoded>> >>
                      /\ call[c].uncaught = None
                 ELSE /\ call[c].cbLog = << <<"null", call[c].decoded>>,
                                            <<Raised(call[c].cb), None>>,
                                            <<Raised(call[c].cb), None>> >>
                      /\ call[c].uncaught = Raised(call[c].cb)
       /\ (/\ call[c].bodyError # None
           /\ ~(CancelledInFlight(c) /\ call[c].bodyError = "AbortError")
           /\ Raised(call[c].cb) # None)
            => /\ call[c].cbLog = << <<call[c].bodyError, None>>,
                                     <<Raised(call[c].cb), None>> >>
               /\ call[c].uncaught = Raised(call[c].cb)
       /\ (/\ call[c].bodyError # None
           /\ responseStream(call[c].rpc)
           /\ ~call[c].listener
           /\ call[c].cb = "returns")
            => call[c].cbLog = << <<call[c].bodyError, None>>,
                                  <<call[c].bodyError, None>> >>

\* C20's case: a unary invocation whose callback raised on the decoded
\* object and was invoked three times, and a cancelled unary invocation
\* whose callback raised an abort error on the report of a failed body read
\* and was invoked with that abort error
C20_Witness ==
  \E c, d \in Calls :
    /\ call[c].pc = "done" /\ ~responseStream(call[c].rpc)
    /\ call[c].cb = "throws" /\ call[c].decoded # None
    /\ Len(call[c].cbLog) = 3
    /\ call[d].pc = "done" /\ CancelledInFlight(d)
    /\ call[d].cb = "throwsAbort"
    /\ call[d].bodyError = "ReadError"
    /\ call[d].cbLog = << <<"ReadError", None>>, <<"AbortError", None>> >>

=============================================================================
